---- MODULE Spec2Model ----
(***************************************************************************)
(* The client-side session and view-state store of the PDF viewer          *)
(* (zustand store `useStore`), the upload round trip that drives it, and   *)
(* the properties its specification states about it.                       *)
(*                                                                         *)
(* `store` is the zustand state object.  Every store operation is an       *)
(* operator from a state object to the state object that `set` leaves      *)
(* behind (set merges the given fields into the state and keeps the        *)
(* others), so an operation's frame is what the source's `set` call names. *)
(***************************************************************************)
EXTENDS Integers, Sequences, FiniteSets, TLC

VARIABLES
    store,      \* the zustand state object
    call,       \* the last operation called on the store, with its arguments
    pending,    \* upload round trips whose extraction has not settled
    view        \* what the images tab (ImagesViewer) rendered last

vars == <<store, call, pending, view>>

----------------------------------------------------------------------------
(* Bounds of the model *)

MaxFiles == 2       \* uploadFile calls in one run
MaxSessions == 2    \* addSession calls in one run
MaxPending == 2     \* extractions outstanding at once

----------------------------------------------------------------------------
(* Values *)

\* JS null, for the fields that hold a string or null
NULL == "null"

\* Strings whose characters matter (ids) are tuples of characters.
EmptyStr == <<>>

Min(a, b) == IF a < b THEN a ELSE b

\* Math.random(): a double in [0, 1), given by the digits of its base-36
\* fraction; the empty tuple is 0.
RandomDraws ==
    { <<"i">>,
      <<"k", "3", "f", "9", "q", "z", "1">>,
      <<"k", "3", "f", "9", "q", "z", "1", "w">> }

\* Number.prototype.toString(36) of a double in [0, 1)
ToString36(r) == IF r = <<>> THEN <<"0">> ELSE <<"0", ".">> \o r

\* String.prototype.substring(a, b), 0 <= a <= b: the characters at
\* 0-based indexes a .. b-1, both ends clipped to the length
Substring(s, a, b) == SubSeq(s, Min(a, Len(s)) + 1, Min(b, Len(s)))

\* new Date().toISOString() is <date> "T" <time>; split("T")[0] is the date
IsoNow == { <<"2025-11-05", "09:30:00.000Z">> }
SplitT0(iso) == iso[1]

\* file names and clock readings of the uploads of FilesSpec
UploadNames == { "report.pdf", "notes.pdf" }
UploadTimes == { <<"2025-11-05", "09:30:00.000Z">>, <<"2025-11-06", "00:00:00.000Z">> }

FileNames == { "report.pdf" }

\* the ids uploadFile can issue
IssuedIds == { Substring(ToString36(r), 2, 9) : r \in RandomDraws }

\* fileId arguments a caller passes to addSession and loadSession
FileIdArgs == IssuedIds \cup { EmptyStr }

\* extraction results (opaque to the store)
DataArgs == { "d1", "d2" }

\* arguments of setCurrentFile
CurrentFileArgs == DataArgs \cup { NULL }

\* arguments of setCurrentPage
PageArgs == { 0, 1, 5 }

TabArgs == { "summary", "json" }
NodeIdArgs == { NULL, "n1" }

\* argument lists of openPDFViewer: (url, title) or (url, title, page)
OpenArgs ==
    { <<"a.pdf", "Doc">>, <<"b.pdf", "Doc2">>,
      <<"a.pdf", "Doc", 3>>, <<"b.pdf", "Doc2", 3>> }

----------------------------------------------------------------------------
(* The store: initial state and operations *)

InitStore ==
    [ activeTab      |-> "summary",
      isLoading      |-> FALSE,
      files          |-> <<>>,
      sessions       |-> <<>>,
      currentFile    |-> NULL,
      sidebarOpen    |-> TRUE,
      currentPage    |-> 1,
      selectedNodeId |-> NULL,
      pdfViewerOpen  |-> FALSE,
      pdfViewerUrl   |-> NULL,
      pdfViewerTitle |-> NULL,
      pdfViewerPage  |-> 1 ]

setActiveTab_resetsPage(s, tab) == [s EXCEPT !.activeTab = tab, !.currentPage = 1]

setActiveTab(s, tab) == [s EXCEPT !.activeTab = tab]

setLoading_stuck(s, status) == [s EXCEPT !.isLoading = TRUE]

setLoading(s, status) == [s EXCEPT !.isLoading = status]

\* the id uploadFile generates from one Math.random() draw
NewId(r) == Substring(ToString36(r), 2, 9)

uploadFile_appends(s, file, r, iso) ==
    LET id == NewId(r)
    IN  [ state |-> [s EXCEPT !.files =
                        s.files \o
                        << [id |-> id, name |-> file.name, date |-> SplitT0(iso)] >>],
          ret   |-> id ]

\* uploadFile(file): the state it leaves and the id it returns
uploadFile(s, file, r, iso) ==
    LET id == NewId(r)
    IN  [ state |-> [s EXCEPT !.files =
                        << [id |-> id, name |-> file.name, date |-> SplitT0(iso)] >>
                        \o s.files],
          ret   |-> id ]

addSession_keepsPage(s, fileId, data) ==
    [s EXCEPT !.sessions = Append(s.sessions, [fileId |-> fileId, data |-> data]),
              !.currentFile = data]

addSession_upsert(s, fileId, data) ==
    [s EXCEPT !.sessions = Append(SelectSeq(s.sessions, LAMBDA e : e.fileId # fileId),
                                  [fileId |-> fileId, data |-> data]),
              !.currentFile = data,
              !.currentPage = 1]

addSession_clearsSelection(s, fileId, data) ==
    [s EXCEPT !.sessions = Append(s.sessions, [fileId |-> fileId, data |-> data]),
              !.currentFile = data,
              !.currentPage = 1,
              !.selectedNodeId = NULL]

addSession_keepsActive(s, fileId, data) ==
    [s EXCEPT !.sessions = Append(s.sessions, [fileId |-> fileId, data |-> data]),
              !.currentFile = IF s.currentFile = NULL THEN data ELSE s.currentFile,
              !.currentPage = 1]

addSession(s, fileId, data) ==
    [s EXCEPT !.sessions = Append(s.sessions, [fileId |-> fileId, data |-> data]),
              !.currentFile = data,
              !.currentPage = 1]

\* Array.prototype.find: the first element satisfying the predicate, in
\* index order; the result is <<>> for undefined and <<element>> otherwise
FindSession(sessions, fileId) ==
    LET hits == { i \in 1..Len(sessions) : sessions[i].fileId = fileId }
    IN  IF hits = {} THEN <<>>
        ELSE << sessions[CHOOSE i \in hits : \A j \in hits : i <= j] >>

loadSession_clearsOnMiss(s, fileId) ==
    LET session == FindSession(s.sessions, fileId)
    IN  IF session # <<>>
        THEN [s EXCEPT !.currentFile = session[1].data, !.currentPage = 1]
        ELSE [s EXCEPT !.currentFile = NULL, !.currentPage = 1]

loadSession_keepsPage(s, fileId) ==
    LET session == FindSession(s.sessions, fileId)
    IN  IF session # <<>>
        THEN [s EXCEPT !.currentFile = session[1].data]
        ELSE s

loadSession(s, fileId) ==
    LET session == FindSession(s.sessions, fileId)
    IN  IF session # <<>>
        THEN [s EXCEPT !.currentFile = session[1].data, !.currentPage = 1]
        ELSE s

setCurrentFile(s, data) == [s EXCEPT !.currentFile = data, !.currentPage = 1]

toggleSidebar(s) == [s EXCEPT !.sidebarOpen = ~s.sidebarOpen]

setCurrentPage(s, page) == [s EXCEPT !.currentPage = page]

setSelectedNodeId(s, id) == [s EXCEPT !.selectedNodeId = id]

\* openPDFViewer(url, title, page = 1): the default applies when the call
\* passes no third argument
openPDFViewer_keepsPage(s, args) ==
    [s EXCEPT !.pdfViewerOpen = TRUE,
              !.pdfViewerUrl = args[1],
              !.pdfViewerTitle = args[2],
              !.pdfViewerPage = IF Len(args) >= 3 THEN args[3] ELSE s.pdfViewerPage]

openPDFViewer_syncsPage(s, args) ==
    [s EXCEPT !.pdfViewerOpen = TRUE,
              !.pdfViewerUrl = args[1],
              !.pdfViewerTitle = args[2],
              !.pdfViewerPage = IF Len(args) >= 3 THEN args[3] ELSE 1,
              !.currentPage = IF Len(args) >= 3 THEN args[3] ELSE 1]

openPDFViewer(s, args) ==
    [s EXCEPT !.pdfViewerOpen = TRUE,
              !.pdfViewerUrl = args[1],
              !.pdfViewerTitle = args[2],
              !.pdfViewerPage = IF Len(args) >= 3 THEN args[3] ELSE 1]

closePDFViewer_keepsUrl(s) ==
    [s EXCEPT !.pdfViewerOpen = FALSE,
              !.pdfViewerTitle = NULL,
              !.pdfViewerPage = 1]

closePDFViewer_keepsPage(s) ==
    [s EXCEPT !.pdfViewerOpen = FALSE,
              !.pdfViewerUrl = NULL,
              !.pdfViewerTitle = NULL]

closePDFViewer(s) ==
    [s EXCEPT !.pdfViewerOpen = FALSE,
              !.pdfViewerUrl = NULL,
              !.pdfViewerTitle = NULL,
              !.pdfViewerPage = 1]

----------------------------------------------------------------------------
(* The images tab.  The store holds an extraction result as an opaque value; *)
(* ImagesViewer reads its pages[].images.  Payload gives the fields of each  *)
(* extraction result of the model; a field a result lacks is absent from     *)
(* its record.                                                               *)

ViewerDocs ==
    { "d1", "d2", "noPages", "emptyPages", "emptyImages", "noImagesField" }

Payload(d) ==
    CASE d = "d1" ->
            [ pages |-> << [page |-> 1, images |-> << "/images/p1_0.png" >>] >> ]
      [] d = "d2" ->
            [ pages |-> << [page |-> 1, images |-> <<>>],
                           [page |-> 2, images |-> << "/images/p2_0.png",
                                                      "/images/p2_1.png" >>] >> ]
      [] d = "noPages" -> [ title |-> "untitled" ]
      [] d = "emptyPages" -> [ pages |-> <<>> ]
      [] d = "emptyImages" -> [ pages |-> << [page |-> 1, images |-> <<>>] >> ]
      [] d = "noImagesField" -> [ pages |-> << [page |-> 1] >> ]

\* p.images.map((img) => ({ src: img, page: p.page }))
MapImages(p) == [ k \in 1..Len(p.images) |-> [src |-> p.images[k], page |-> p.page] ]

\* pages.flatMap(...): <<TRUE, images>>, or <<FALSE, <<>>>> when the
\* callback throws: p.images is undefined for a page without the field, and
\* reading map of undefined is a TypeError
RECURSIVE FlatMapImages(_)
FlatMapImages(pages) ==
    IF pages = <<>> THEN << TRUE, <<>> >>
    ELSE IF "images" \notin DOMAIN Head(pages) THEN << FALSE, <<>> >>
    ELSE LET rest == FlatMapImages(Tail(pages))
         IN  IF rest[1] THEN << TRUE, MapImages(Head(pages)) \o rest[2] >>
             ELSE << FALSE, <<>> >>

\* ImagesViewer: currentFile?.pages?.flatMap(...) || [], then the empty
\* state when the list is empty and the grid otherwise
ImagesViewer(currentFile) ==
    LET flat == IF currentFile = NULL THEN << TRUE, <<>> >>
                ELSE IF "pages" \notin DOMAIN Payload(currentFile) THEN << TRUE, <<>> >>
                ELSE FlatMapImages(Payload(currentFile).pages)
    IN  [ doc |-> currentFile,
          outcome |-> IF ~flat[1] THEN "TypeError"
                      ELSE IF Len(flat[2]) = 0 THEN "empty" ELSE "grid",
          images |-> flat[2] ]

\* nothing rendered yet
NoView == [ doc |-> NULL, outcome |-> "none", images |-> <<>> ]

----------------------------------------------------------------------------
(* The record of the last call: the operation, its arguments (fileId, data,  *)
(* page, and the argument list of openPDFViewer, where the operation has     *)
(* them; for uploadFile the id it returned, the file's name and the clock    *)
(* reading it took), the store as it was before the call, and whether the    *)
(* call before it was the same call.                                         *)

NoCall ==
    [ op |-> "none", fileId |-> EmptyStr, data |-> NULL, page |-> 0, args |-> <<>>,
      pre |-> InitStore, repeat |-> FALSE ]

Called(op, fileId, data, page, args) ==
    [ op |-> op, fileId |-> fileId, data |-> data, page |-> page, args |-> args,
      pre |-> store,
      repeat |-> /\ call.op = op
                 /\ call.fileId = fileId
                 /\ call.data = data
                 /\ call.page = page
                 /\ call.args = args ]

----------------------------------------------------------------------------
(* Actions: one per store operation, called by any component *)

Init ==
    /\ store = InitStore
    /\ call = NoCall
    /\ pending = <<>>
    /\ view = NoView

SetActiveTab ==
    \E tab \in TabArgs :
        /\ store' = setActiveTab(store, tab)
        /\ call' = Called("setActiveTab", EmptyStr, tab, 0, <<>>)
        /\ UNCHANGED <<pending, view>>

SetLoading ==
    \E status \in BOOLEAN :
        /\ store' = setLoading(store, status)
        /\ call' = Called("setLoading", EmptyStr,
                          IF status THEN "true" ELSE "false", 0, <<>>)
        /\ UNCHANGED <<pending, view>>

\* The operations whose arguments range over large sets take the set their
\* arguments are drawn from; UploadFile, AddSession, LoadSession,
\* SetCurrentFile and SetCurrentPage draw from all the arguments of the model.
UploadFileOf(names, draws, isos) ==
    \E name \in names, r \in draws, iso \in isos :
        /\ Len(store.files) < MaxFiles
        /\ LET res == uploadFile(store, [name |-> name], r, iso)
           IN  /\ store' = res.state
               /\ call' = Called("uploadFile", res.ret, name, 0, iso)
        /\ UNCHANGED <<pending, view>>

UploadFile == UploadFileOf(FileNames, RandomDraws, IsoNow)

AddSessionOf(fileIds, datas) ==
    \E fileId \in fileIds, data \in datas :
        /\ Len(store.sessions) < MaxSessions
        /\ store' = addSession(store, fileId, data)
        /\ call' = Called("addSession", fileId, data, 0, <<>>)
        /\ UNCHANGED <<pending, view>>

AddSession == AddSessionOf(FileIdArgs, DataArgs)

LoadSessionOf(fileIds) ==
    \E fileId \in fileIds :
        /\ store' = loadSession(store, fileId)
        /\ call' = Called("loadSession", fileId, NULL, 0, <<>>)
        /\ UNCHANGED <<pending, view>>

LoadSession == LoadSessionOf(FileIdArgs)

SetCurrentFileOf(datas) ==
    \E data \in datas :
        /\ store' = setCurrentFile(store, data)
        /\ call' = Called("setCurrentFile", EmptyStr, data, 0, <<>>)
        /\ UNCHANGED <<pending, view>>

SetCurrentFile == SetCurrentFileOf(CurrentFileArgs)

ToggleSidebar ==
    /\ store' = toggleSidebar(store)
    /\ call' = Called("toggleSidebar", EmptyStr, NULL, 0, <<>>)
    /\ UNCHANGED <<pending, view>>

SetCurrentPageOf(pages) ==
    \E page \in pages :
        /\ store' = setCurrentPage(store, page)
        /\ call' = Called("setCurrentPage", EmptyStr, NULL, page, <<>>)
        /\ UNCHANGED <<pending, view>>

SetCurrentPage == SetCurrentPageOf(PageArgs)

SetSelectedNodeId ==
    \E id \in NodeIdArgs :
        /\ store' = setSelectedNodeId(store, id)
        /\ call' = Called("setSelectedNodeId", EmptyStr, id, 0, <<>>)
        /\ UNCHANGED <<pending, view>>

OpenPDFViewer ==
    \E args \in OpenArgs :
        /\ store' = openPDFViewer(store, args)
        /\ call' = Called("openPDFViewer", EmptyStr, NULL, 0, args)
        /\ UNCHANGED <<pending, view>>

ClosePDFViewer ==
    /\ store' = closePDFViewer(store)
    /\ call' = Called("closePDFViewer", EmptyStr, NULL, 0, <<>>)
    /\ UNCHANGED <<pending, view>>

\* React renders ImagesViewer from the store's currentFile
RenderImagesViewer ==
    /\ view' = ImagesViewer(store.currentFile)
    /\ UNCHANGED <<store, call, pending>>

----------------------------------------------------------------------------
(* The upload round trip (UploadCoordinator).  The handler registers the    *)
(* file, raises isLoading and starts the extraction request in one          *)
(* synchronous step; the continuation after the request settles is one      *)
(* step too: on success it adds the session, and on either outcome it       *)
(* lowers isLoading.  Requests of different uploads settle in any order.    *)

RemoveAt(seq, i) == SubSeq(seq, 1, i - 1) \o SubSeq(seq, i + 1, Len(seq))

startUpload(s, file, r, iso) ==
    LET up == uploadFile(s, file, r, iso)
    IN  [ state |-> setLoading(up.state, TRUE), ret |-> up.ret ]

onExtractionResolved(s, fileId, data) == setLoading(addSession(s, fileId, data), FALSE)

onExtractionRejected(s) == setLoading(s, FALSE)

HandleUpload ==
    \E name \in FileNames, r \in RandomDraws, iso \in IsoNow :
        /\ Len(store.files) < MaxFiles
        /\ Len(pending) < MaxPending
        /\ LET res == startUpload(store, [name |-> name], r, iso)
           IN  /\ store' = res.state
               /\ pending' = Append(pending, res.ret)
               /\ call' = Called("handleUpload", res.ret, name, 0, <<>>)
        /\ UNCHANGED view

ExtractionResolves ==
    \E i \in 1..Len(pending), data \in DataArgs :
        /\ Len(store.sessions) < MaxSessions
        /\ store' = onExtractionResolved(store, pending[i], data)
        /\ pending' = RemoveAt(pending, i)
        /\ call' = Called("extractionResolved", pending[i], data, 0, <<>>)
        /\ UNCHANGED view

ExtractionRejects ==
    \E i \in 1..Len(pending) :
        /\ store' = onExtractionRejected(store)
        /\ pending' = RemoveAt(pending, i)
        /\ call' = Called("extractionRejected", pending[i], NULL, 0, <<>>)
        /\ UNCHANGED view

\* the request of some outstanding upload settles, one way or the other
ExtractionSettles == ExtractionResolves \/ ExtractionRejects

----------------------------------------------------------------------------
(* Specifications *)

\* The document slice: files, sessions, the active document and its page.
Next ==
    \/ UploadFile
    \/ AddSession
    \/ LoadSession
    \/ SetCurrentFile
    \/ SetCurrentPage

Spec == Init /\ [][Next]_vars

\* The view slice: tabs, chrome, the overlay, and the setters that switch
\* the active document or its page without touching files and sessions.
ViewNext ==
    \/ SetActiveTab
    \/ SetLoading
    \/ ToggleSidebar
    \/ SetSelectedNodeId
    \/ SetCurrentFile
    \/ SetCurrentPage
    \/ OpenPDFViewer
    \/ ClosePDFViewer

ViewSpec == Init /\ [][ViewNext]_vars

\* The whole store: every operation, the document operations each with
\* one choice of arguments, so that documents, tabs, chrome and the overlay
\* vary together.
FrameNext ==
    \/ UploadFileOf(FileNames, { <<"i">> }, IsoNow)
    \/ AddSessionOf({ <<"i">> }, { "d1" })
    \/ LoadSessionOf({ <<"i">> })
    \/ SetCurrentFileOf({ "d2" })
    \/ SetCurrentPageOf({ 5 })
    \/ SetActiveTab
    \/ SetLoading
    \/ ToggleSidebar
    \/ SetSelectedNodeId
    \/ OpenPDFViewer
    \/ ClosePDFViewer

FrameSpec == Init /\ [][FrameNext]_vars

\* The files list: uploads of differently named files on different days,
\* between which a document is added and paged.
FilesNext ==
    \/ UploadFileOf(UploadNames, RandomDraws, UploadTimes)
    \/ AddSessionOf({ <<"i">> }, { "d1" })
    \/ SetCurrentPageOf({ 5 })

FilesSpec == Init /\ [][FilesNext]_vars

\* The images tab: any extraction result, or none, is made the active
\* document and the tab renders it.
ImagesNext ==
    \/ SetCurrentFileOf(ViewerDocs \cup { NULL })
    \/ RenderImagesViewer

ImagesSpec == Init /\ [][ImagesNext]_vars

\* Upload round trips, with the user re-activating cached sessions and
\* replaying results in between.  Every extraction request settles: the HTTP client gives up
\* after its timeout.
UploadNext ==
    \/ HandleUpload
    \/ ExtractionResolves
    \/ ExtractionRejects
    \/ LoadSession
    \/ SetCurrentFileOf(DataArgs)

UploadSpec == Init /\ [][UploadNext]_vars /\ WF_vars(ExtractionSettles)

----------------------------------------------------------------------------
(* Properties *)

\* some entry of the session list has this fileId
HasSession(sessions, fileId) ==
    \E i \in 1..Len(sessions) : sessions[i].fileId = fileId

\* the data of the most recently appended session with this fileId
LastSessionData(sessions, fileId) ==
    LET hits == { i \in 1..Len(sessions) : sessions[i].fileId = fileId }
    IN  sessions[CHOOSE i \in hits : \A j \in hits : j <= i].data

\* the overlay slice of a store state
Overlay(s) ==
    [ open |-> s.pdfViewerOpen, url |-> s.pdfViewerUrl,
      title |-> s.pdfViewerTitle, page |-> s.pdfViewerPage ]

OverlayReset == [ open |-> FALSE, url |-> NULL, title |-> NULL, page |-> 1 ]

\* C1: loadSession(id), when sessions for id exist, makes currentFile the
\* data of the most recently appended session for id (last-write-wins);
\* stated here for the non-empty ids, the ones uploadFile can have issued.
C1_LoadSessionLastWriteWins ==
    (/\ call.op = "loadSession"
     /\ call.fileId # EmptyStr
     /\ HasSession(call.pre.sessions, call.fileId))
        => store.currentFile = LastSessionData(call.pre.sessions, call.fileId)

\* C2: right after addSession(id, d), currentFile is d and currentPage is 1,
\* whatever they were before the call.
C2_AddSessionActivates ==
    call.op = "addSession"
        => /\ store.currentFile = call.data
           /\ store.currentPage = 1

\* C2 witness: addSession has run from a state on page 5 showing another
\* document.
C2_Witness ==
    /\ call.op = "addSession"
    /\ call.pre.currentPage = 5
    /\ call.pre.currentFile \in DataArgs
    /\ call.pre.currentFile # call.data

\* C3: setCurrentFile(data), and loadSession(id) when a session for id
\* exists, add no session and leave currentPage at 1 in the step that
\* switches currentFile; the new document is never paired with the old page.
C3_SwitchResetsPage ==
    /\ call.op = "setCurrentFile"
        => /\ store.currentFile = call.data
           /\ store.currentPage = 1
           /\ store.sessions = call.pre.sessions
    /\ (call.op = "loadSession" /\ HasSession(call.pre.sessions, call.fileId))
        => /\ \E i \in 1..Len(call.pre.sessions) :
                 /\ call.pre.sessions[i].fileId = call.fileId
                 /\ store.currentFile = call.pre.sessions[i].data
           /\ store.currentPage = 1
           /\ store.sessions = call.pre.sessions

\* C3 witness: loadSession found a session while the page was 5.
C3_Witness ==
    /\ call.op = "loadSession"
    /\ HasSession(call.pre.sessions, call.fileId)
    /\ call.pre.currentPage = 5
    /\ store.currentFile # call.pre.currentFile

\* C4: loadSession(id) with no session for id leaves every store field as
\* it was, the first time and every time it is repeated.
C4_LoadSessionMissNoOp ==
    (call.op = "loadSession" /\ ~HasSession(call.pre.sessions, call.fileId))
        => store = call.pre

\* C4 witness: the same missing id was looked up twice in a row, with a
\* document active on page 5 and other sessions cached.
C4_Witness ==
    /\ call.op = "loadSession"
    /\ ~HasSession(call.pre.sessions, call.fileId)
    /\ call.repeat
    /\ call.pre.sessions # <<>>
    /\ call.pre.currentFile # NULL
    /\ call.pre.currentPage = 5

\* C5: no two FileRecords of the files list share an id: the ids uploadFile
\* returned are pairwise distinct.
C5_UploadIdsDistinct ==
    \A i, j \in 1..Len(store.files) :
        i # j => store.files[i].id # store.files[j].id

\* C6: closePDFViewer() leaves the overlay at {open: false, url: null,
\* title: null, page: 1} from any overlay state, and a repeated call leaves
\* the whole store as it was.
C6_CloseResetsOverlay ==
    call.op = "closePDFViewer"
        => /\ Overlay(store) = OverlayReset
           /\ call.repeat => store = call.pre

\* C6 witness: closePDFViewer has run on an overlay open on page 3.
C6_Witness ==
    /\ call.op = "closePDFViewer"
    /\ call.pre.pdfViewerOpen
    /\ call.pre.pdfViewerPage = 3

\* C7: openPDFViewer(url, title) without a page argument opens the overlay
\* on page 1 with that url and title, whatever page an earlier open used.
C7_OpenDefaultsToPageOne ==
    (call.op = "openPDFViewer" /\ Len(call.args) = 2)
        => Overlay(store) =
              [ open |-> TRUE, url |-> call.args[1],
                title |-> call.args[2], page |-> 1 ]

\* C7 witness: a two-argument open of another document has run while the
\* overlay held page 3 from an earlier open.
C7_Witness ==
    /\ call.op = "openPDFViewer"
    /\ Len(call.args) = 2
    /\ call.pre.pdfViewerPage = 3
    /\ call.pre.pdfViewerUrl # call.args[1]

\* C8: currentPage is at least 1 in every reachable state, whatever
\* arguments setCurrentPage is called with.
C8_CurrentPageAtLeastOne == store.currentPage >= 1

\* C9: whenever the overlay is closed, its url and title are null and its
\* page is 1.
C9_ClosedOverlayIsCleared ==
    ~store.pdfViewerOpen
        => /\ store.pdfViewerUrl = NULL
           /\ store.pdfViewerTitle = NULL
           /\ store.pdfViewerPage = 1

\* C9 witness: the overlay has just been closed after showing b.pdf.
C9_Witness ==
    /\ ~store.pdfViewerOpen
    /\ call.op = "closePDFViewer"
    /\ call.pre.pdfViewerOpen
    /\ call.pre.pdfViewerUrl = "b.pdf"

C11_AddSessionEmptyIdRejected ==
    (call.op = "addSession" /\ call.fileId = EmptyStr)
        => /\ store.sessions = call.pre.sessions
           /\ store.currentFile = call.pre.currentFile
           /\ store.currentPage = call.pre.currentPage

\* C12: every entry of the session list has the id of some FileRecord of
\* the files list as its fileId.
C12_SessionsReferenceIssuedIds ==
    \A i \in 1..Len(store.sessions) :
        \E j \in 1..Len(store.files) :
            store.files[j].id = store.sessions[i].fileId

\* C13: a call made while a document is active (currentFile non-null)
\* leaves a document active: there is no way back to NoDocument.
C13_DocumentStaysActive ==
    call.pre.currentFile # NULL => store.currentFile # NULL

\* one sequence is an initial segment of the other
IsPrefix(a, b) == Len(a) <= Len(b) /\ SubSeq(b, 1, Len(a)) = a

\* C17: the session list is append-only: every call leaves the list it
\* found as a prefix of the list it leaves; addSession adds exactly one
\* entry, {fileId, data}, at the end, and every other operation leaves the
\* list as it was.
C17_SessionsAppendOnly ==
    /\ IsPrefix(call.pre.sessions, store.sessions)
    /\ call.op = "addSession"
        => store.sessions =
              Append(call.pre.sessions, [fileId |-> call.fileId, data |-> call.data])
    /\ call.op # "addSession" => store.sessions = call.pre.sessions

\* C17 witness: addSession has run for a fileId that already had a session,
\* with different data (a re-extraction).
C17_Witness ==
    /\ call.op = "addSession"
    /\ HasSession(call.pre.sessions, call.fileId)
    /\ LastSessionData(call.pre.sessions, call.fileId) # call.data

\* C15: setActiveTab, setCurrentPage, setSelectedNodeId, toggleSidebar and
\* setLoading each set their own field (to the argument; toggleSidebar to
\* the negation of sidebarOpen) and leave every other store field as it was.
C15_SettersChangeOwnFieldOnly ==
    /\ call.op = "setActiveTab"
        => store = [call.pre EXCEPT !.activeTab = call.data]
    /\ call.op = "setCurrentPage"
        => store = [call.pre EXCEPT !.currentPage = call.page]
    /\ call.op = "setSelectedNodeId"
        => store = [call.pre EXCEPT !.selectedNodeId = call.data]
    /\ call.op = "toggleSidebar"
        => store = [call.pre EXCEPT !.sidebarOpen = ~call.pre.sidebarOpen]
    /\ call.op = "setLoading"
        => store = [call.pre EXCEPT !.isLoading = (call.data = "true")]

\* C15 witness: setActiveTab has switched the tab while files and sessions
\* were recorded, a document was active on page 5 and the overlay was open.
C15_Witness ==
    /\ call.op = "setActiveTab"
    /\ call.data # call.pre.activeTab
    /\ call.pre.files # <<>>
    /\ call.pre.sessions # <<>>
    /\ call.pre.currentFile # NULL
    /\ call.pre.currentPage = 5
    /\ call.pre.pdfViewerOpen

\* C16: addSession(fileId, data) leaves activeTab and selectedNodeId as they
\* were before the call.
C16_AddSessionKeepsTabAndSelection ==
    call.op = "addSession"
        => /\ store.activeTab = call.pre.activeTab
           /\ store.selectedNodeId = call.pre.selectedNodeId

\* C16 witness: addSession has made a new document active while a node of
\* the previous document was selected on a tab other than the initial one.
C16_Witness ==
    /\ call.op = "addSession"
    /\ call.pre.currentFile \notin {NULL, call.data}
    /\ call.pre.selectedNodeId # NULL
    /\ call.pre.activeTab # InitStore.activeTab
    /\ store.currentFile = call.data

\* the document-lifecycle fields the overlay operations must not touch
DocumentSlice(s) ==
    [ currentFile |-> s.currentFile, currentPage |-> s.currentPage,
      activeTab |-> s.activeTab, selectedNodeId |-> s.selectedNodeId,
      files |-> s.files, sessions |-> s.sessions ]

\* C18: openPDFViewer and closePDFViewer leave currentFile, currentPage,
\* activeTab, selectedNodeId, files and sessions as they were; uploadFile,
\* addSession, loadSession, setCurrentFile and setCurrentPage leave the four
\* overlay fields as they were.
C18_OverlayIndependentOfDocument ==
    /\ call.op \in {"openPDFViewer", "closePDFViewer"}
        => DocumentSlice(store) = DocumentSlice(call.pre)
    /\ call.op \in {"uploadFile", "addSession", "loadSession",
                    "setCurrentFile", "setCurrentPage"}
        => Overlay(store) = Overlay(call.pre)

\* C18 witness: the overlay has been opened on page 3 while a cached
\* document was active on page 5.
C18_Witness ==
    /\ call.op = "openPDFViewer"
    /\ Len(call.args) = 3
    /\ call.pre.sessions # <<>>
    /\ call.pre.currentFile # NULL
    /\ call.pre.currentPage = 5
    /\ call.pre.selectedNodeId # NULL

\* C14: uploadFile(file) puts one new FileRecord {id, name: file.name,
\* date: the date of the clock reading} at the head of the files list, with
\* the earlier records behind it in their previous order, returns that
\* record's id, and leaves every other store field as it was.
C14_UploadFilePrependsRecord ==
    call.op = "uploadFile"
        => /\ store.files =
                << [id |-> call.fileId, name |-> call.data, date |-> call.args[1]] >>
                \o call.pre.files
           /\ store = [call.pre EXCEPT !.files = store.files]

\* C14 witness: a file has been uploaded after another one of a different
\* name, id and day, while a document was active on page 5.
C14_Witness ==
    /\ call.op = "uploadFile"
    /\ call.pre.files # <<>>
    /\ call.pre.files[1].name # call.data
    /\ call.pre.files[1].id # call.fileId
    /\ call.pre.files[1].date # call.args[1]
    /\ call.pre.sessions # <<>>
    /\ call.pre.currentPage = 5

\* C20: with several uploads outstanding, the active document follows the
\* order in which the extractions complete: a completed extraction makes
\* its data the active document on page 1 whatever was active before and
\* whichever upload started first; setCurrentFile makes its argument active,
\* loadSession on a hit makes a cached session of its id active; and the
\* steps that switch nothing (starting an upload, a failed extraction, a
\* loadSession miss) leave the active document as it was.  So currentFile
\* is always the data of the last of the switching operations.
C20_ActiveDocumentFollowsCompletion ==
    /\ call.op = "extractionResolved"
        => /\ store.currentFile = call.data
           /\ store.currentPage = 1
    /\ call.op = "setCurrentFile" => store.currentFile = call.data
    /\ (call.op = "loadSession" /\ HasSession(call.pre.sessions, call.fileId))
        => \E i \in 1..Len(call.pre.sessions) :
              /\ call.pre.sessions[i].fileId = call.fileId
              /\ store.currentFile = call.pre.sessions[i].data
    /\ (\/ call.op \in {"handleUpload", "extractionRejected"}
        \/ (call.op = "loadSession" /\ ~HasSession(call.pre.sessions, call.fileId)))
        => store.currentFile = call.pre.currentFile

\* C20 witness: of two uploads with different ids, the one started later
\* completed first and was active; then the one started first completed
\* with other data and took the active document over.
C20_Witness ==
    /\ call.op = "extractionResolved"
    /\ pending = <<>>
    /\ Len(store.files) = 2
    /\ Len(store.sessions) = 2
    /\ store.files[1].id # store.files[2].id
    /\ store.sessions[1].fileId = store.files[1].id
    /\ store.sessions[2].fileId = store.files[2].id
    /\ store.sessions[1].data # store.sessions[2].data
    /\ call.pre.currentFile = store.sessions[1].data
    /\ store.currentFile = store.sessions[2].data

\* the document has no image at all: it is null, has no pages field, or
\* each of its pages has no images field or an empty one
HasNoImages(d) ==
    \/ d = NULL
    \/ "pages" \notin DOMAIN Payload(d)
    \/ \A k \in 1..Len(Payload(d).pages) :
          \/ "images" \notin DOMAIN Payload(d).pages[k]
          \/ Payload(d).pages[k].images = <<>>

\* C19: rendering the images tab never fails, and for an active document
\* that is null, has no pages, or whose pages have no images field (or no
\* images) it renders the empty state.
C19_ImagesViewerDefensive ==
    view.outcome # "none"
        => /\ view.outcome # "TypeError"
           /\ HasNoImages(view.doc) => view.outcome = "empty"

====
